---------------------------- MODULE Spec2Model ----------------------------
(***************************************************************************)
(* FractalForest: the L-system rewriter (LSystem.generate), the turtle     *)
(* interpreter (LSystem.get_vertices) and the forest placement             *)
(* (ForestGenerator._generate_tree_positions).                             *)
(*                                                                         *)
(* A Python string is a sequence of one-character strings.  A random draw  *)
(* u of random.random() is a number d in 0..DrawRange-1 standing for       *)
(* u = d / DrawRange; the draws one call consumes are a sequence that is   *)
(* read cyclically.                                                        *)
(***************************************************************************)
EXTENDS Integers, Sequences, FiniteSets

VARIABLES
    axiom,           \* LSystem.axiom
    rules,           \* LSystem.rules: a function from symbols to replacements
    current_string,  \* LSystem.current_string
    iterations,      \* LSystem.iterations
    angle,           \* LSystem.angle, as [c, s, h]: cos = c/h, sin = s/h
    scale,           \* LSystem.scale, as [num, den]
    initial_length,  \* LSystem.initial_length, in 1/10000
    initial_width,   \* LSystem.initial_width, in 1/1000000
    trunk_color,     \* LSystem.trunk_color, components in 1/1000
    leaf_color,      \* LSystem.leaf_color, components in 1/1000
    returned,        \* history: generate has returned at least once
    rewritten,       \* history: the string of the last call before the simplicity check
    truncated,       \* history: the length cap fired in the last call
    prev,            \* history: summary of the call before the last one
    \* the locals of get_vertices
    char_index,      \* the position in current_string of the next symbol to read
    vertices, colors, normals,
    stack, position, direction, current_length, current_width, branch_depth,
    segments_since_turn_or_branch,
    seg_dirs,        \* history: the direction each emitted normal was computed from
    draws_made,      \* history: the number of random draws get_vertices has made
    gv_result,       \* what get_vertices returned, NoResult before it returns
    \* ForestGenerator and the locals of _generate_tree_positions
    min_distance,    \* ForestGenerator.min_distance, in grid units
    tree_count,           \* the number of trees asked for (the argument count)
    positions,       \* the accepted (x, z) positions
    tree_index,      \* the number of trees the outer loop has finished
    positioned, attempts,
    where,           \* "for": between trees, "while": drawing for a tree, "done": returned
    skipped,         \* history: the trees given up after max_attempts draws
    \* one tree of ForestGenerator.render_forest: generate, get_vertices, setup_object
    tape,            \* the random draws a run consumes: [gen, turtle]
    placement,       \* the (x, z) position of the tree, in grid units
    rendered,        \* the arrays handed to renderer.setup_object, NoObject before
    first_run,       \* history: what the first run produced, NoRun during it
    scale_arg,       \* history: the scale argument of LSystem.__init__, as [num, den]
    \* ForestGenerator and its renderer across calls
    trees,           \* ForestGenerator.trees, each tree by what it gives to draw
    objects,         \* Renderer.objects: the indices i with "tree_i" registered
    render_pc,       \* where render_forest is: "idle", "clear" or "draw"
    render_i,        \* the loop index of render_forest
    shown,           \* history: render_forest has returned for the current forest
    \* calls that may raise
    raised,          \* the exception the last call raised, "none" if it returned
    gen_tape,        \* history: the values random.random() had for the symbols of the axiom
    interpreter,     \* which interpreter reads current_string
    tree_stats       \* Tree.height, Tree.branch_count and the local max_depth

grammarVars == <<axiom, rules>>

appearanceVars == <<angle, scale, initial_length, initial_width, trunk_color, leaf_color>>

genVars == <<current_string, iterations, returned, rewritten, truncated, prev>>

turtleVars == <<char_index, vertices, colors, normals, stack, position, direction,
                current_length, current_width, branch_depth,
                segments_since_turn_or_branch, seg_dirs, draws_made, gv_result>>

forestVars == <<min_distance, tree_count, positions, tree_index, positioned, attempts,
                where, skipped>>

sceneVars == <<trees, objects, render_pc, render_i, shown>>

callVars == <<raised, gen_tape, interpreter, tree_stats>>

runVars == <<tape, placement, rendered, first_run, scale_arg, sceneVars, callVars>>

vars == <<grammarVars, appearanceVars, genVars, turtleVars, forestVars, runVars>>

-----------------------------------------------------------------------------
(* Bounds of the model *)

\* generate is called with 0..MaxIterations generations
MaxIterations == 5
\* axioms are all the non-empty strings over AxiomAlphabet up to this length
MaxAxiomLen == 2
\* a random draw is one of 0..DrawRange-1
DrawRange == 8
\* the length cap of generate (max_string_length, 80000 in lsystem.py:82), scaled
\* down so that the rewriting of the grammars below exceeds it
max_string_length == 12
\* get_vertices reads every string over the turtle alphabet up to this length,
\* alone and after DeepPrefix times '['
MaxBody == 2
DeepPrefix == 17
\* positions are drawn on the grid -HalfSize..HalfSize in x and in z
HalfSize == 1
\* up to MaxCount trees are asked for
MaxCount == 3
\* the generations asked of generate for rules of any value type
MaxAnyIterations == 2

\* the longest instruction string given to the other interpreters
MaxOtherLen == 3

\* the draws allowed per tree (max_attempts, 50 in forest.py:60), scaled down
max_attempts == 5
\* render_forest calls generate with 0..MaxRunIterations generations
MaxRunIterations == 3

-----------------------------------------------------------------------------
(* Strings *)

Count(s, c) == Cardinality({i \in DOMAIN s : s[i] = c})

Contains(s, c) == \E i \in DOMAIN s : s[i] = c

\* number of '[' minus number of ']' among the first k symbols
Depth(s, k) == Count(SubSeq(s, 1, k), "[") - Count(SubSeq(s, 1, k), "]")

\* as many '[' as ']', and no prefix with more ']' than '['
Balanced(s) ==
    /\ Depth(s, Len(s)) = 0
    /\ \A k \in 0..Len(s) : Depth(s, k) >= 0

LastIndex(s, c) == CHOOSE i \in DOMAIN s : s[i] = c /\ \A j \in DOMAIN s : s[j] = c => j <= i

\* s.rsplit(c, 1)[0]
RSplitHead(s, c) == IF Contains(s, c) THEN SubSeq(s, 1, LastIndex(s, c) - 1) ELSE s

SeqsUpTo(S, n) == UNION {[1..k -> S] : k \in 1..n}

-----------------------------------------------------------------------------
(* LSystem.generate *)

RECURSIVE ApplyRulesDropping(_, _)
\* mutant of ApplyRules: a symbol without a rule is dropped instead of copied
ApplyRulesDropping(rs, s) ==
    IF s = <<>> THEN <<>>
    ELSE (IF Head(s) \in DOMAIN rs THEN rs[Head(s)] ELSE <<>>)
            \o ApplyRulesDropping(rs, Tail(s))

RECURSIVE ApplyRules(_, _)
\* one generation: the inner loop over the symbols of current appends, in
\* order, the replacement of each symbol that has a rule and the symbol itself
\* otherwise (computed by halves, which keeps the recursion shallow)
ApplyRules(rs, s) ==
    IF s = <<>> THEN <<>>
    ELSE IF Len(s) = 1
         THEN (IF Head(s) \in DOMAIN rs THEN rs[Head(s)] ELSE <<Head(s)>>)
         ELSE LET half == Len(s) \div 2
              IN  ApplyRules(rs, SubSeq(s, 1, half))
                     \o ApplyRules(rs, SubSeq(s, half + 1, Len(s)))

\* mutant of TruncateRepair: the truncated string is kept as it was cut
TruncateNoRepair(s) == s

RECURSIVE TruncateRepair(_)
\* while '[' in current and current.count('[') > current.count(']'): strip the last '['
TruncateRepair(s) ==
    IF Contains(s, "[") /\ Count(s, "[") > Count(s, "]")
    THEN TruncateRepair(RSplitHead(s, "["))
    ELSE s

RECURSIVE ExpandOneMore(_, _, _, _)
\* mutant of Expand: the generation loop runs once more than asked
ExpandOneMore(rs, current, i, n) ==
    IF i = n + 1
    THEN [s |-> current, truncated |-> FALSE]
    ELSE LET next_gen == ApplyRules(rs, current)
         IN  IF Len(next_gen) > max_string_length
             THEN [s |-> TruncateRepair(SubSeq(next_gen, 1, max_string_length)),
                   truncated |-> TRUE]
             ELSE ExpandOneMore(rs, next_gen, i + 1, n)

RECURSIVE ExpandNoBreak(_, _, _, _)
\* mutant of Expand: after a truncation the generation loop goes on
ExpandNoBreak(rs, current, i, n) ==
    IF i = n
    THEN [s |-> current, truncated |-> FALSE]
    ELSE LET next_gen == ApplyRules(rs, current)
         IN  IF Len(next_gen) > max_string_length
             THEN [s |-> ExpandNoBreak(rs, TruncateRepair(SubSeq(next_gen, 1, max_string_length)),
                                       i + 1, n).s,
                   truncated |-> TRUE]
             ELSE ExpandNoBreak(rs, next_gen, i + 1, n)

RECURSIVE Expand(_, _, _, _)
\* the generation loop: for i in range(iterations), with the length cap and its break
Expand(rs, current, i, n) ==
    IF i = n
    THEN [s |-> current, truncated |-> FALSE]
    ELSE LET next_gen == ApplyRules(rs, current)
         IN  IF Len(next_gen) > max_string_length
             THEN [s |-> TruncateRepair(SubSeq(next_gen, 1, max_string_length)),
                   truncated |-> TRUE]
             ELSE Expand(rs, next_gen, i + 1, n)

RotationSymbols == {"+", "-", "&", "^", "\\", "/"}

rotation_count(s) == Cardinality({i \in DOMAIN s : s[i] \in RotationSymbols})

branch_count(s) == Count(s, "[") + Count(s, "]")

_is_too_simple(s) ==
    LET f_count == Count(s, "F")
        is_simple == \/ (f_count > 10 /\ branch_count(s) < 4 /\ rotation_count(s) < 4)
                     \/ (Len(s) < 20 /\ f_count > 3)
    IN  IF ~is_simple /\ f_count > 5
        THEN \A i \in DOMAIN s : s[i] = "F"
        ELSE is_simple

RECURSIVE ReplaceFFF(_, _)
\* s.replace("FFF", "F[+F][-F]FF", count): leftmost non-overlapping occurrences
ReplaceFFF(s, count) ==
    IF count = 0 \/ Len(s) < 3 THEN s
    ELSE IF SubSeq(s, 1, 3) = <<"F", "F", "F">>
         THEN <<"F", "[", "+", "F", "]", "[", "-", "F", "]", "F", "F">>
                 \o ReplaceFFF(SubSeq(s, 4, Len(s)), count - 1)
         ELSE <<Head(s)>> \o ReplaceFFF(Tail(s), count)

\* the branch patterns of _add_complexity's loop
BranchTypes ==
    << <<"[", "+", "F", "X", "]">>, <<"[", "-", "F", "X", "]">>,
       <<"[", "/", "F", "X", "]">>, <<"[", "\\", "F", "X", "]">>,
       <<"[", "+", "F", "]", "[", "-", "F", "]">>,
       <<"[", "&", "F", "]">>, <<"[", "^", "F", "]">> >>

\* the branch patterns of _add_complexity's final insertion
ExtraBranchTypes ==
    << <<"[", "+", "F", "X", "]">>, <<"[", "-", "F", "X", "]">>,
       <<"[", "&", "F", "X", "]">>, <<"[", "^", "F", "X", "]">> >>

\* the k-th draw (from 0) of a call
Draw(draws, k) == draws[(k % Len(draws)) + 1]

\* random.random() < p with p = num/den
RandomBelow(d, num, den) == d * den < num * DrawRange

\* random.choice(seq)
RandomChoice(d, seq) == seq[((d * Len(seq)) \div DrawRange) + 1]

RECURSIVE AddLoop(_, _, _, _, _, _)
\* the for loop of _add_complexity; k counts the draws consumed
AddLoop(string, i, result, branches_added, k, draws) ==
    IF i > Len(string)
    THEN [result |-> result, branches_added |-> branches_added, k |-> k]
    ELSE LET char == string[i]
             r1 == Append(result, char)
         IN  IF char = "F" /\ i < Len(string)
             THEN LET should_add == RandomBelow(Draw(draws, k), 1, 4) \/ branches_added < 3
                  IN  IF should_add
                      THEN AddLoop(string, i + 1,
                                   r1 \o RandomChoice(Draw(draws, k + 1), BranchTypes),
                                   branches_added + 1, k + 2, draws)
                      ELSE AddLoop(string, i + 1, r1, branches_added, k + 1, draws)
             ELSE AddLoop(string, i + 1, r1, branches_added, k, draws)

\* the positions of 'F' in s, in increasing order
RECURSIVE FIndices(_, _)
FIndices(s, i) ==
    IF i > Len(s) THEN <<>>
    ELSE (IF s[i] = "F" THEN <<i>> ELSE <<>>) \o FIndices(s, i + 1)

_add_complexity(string, draws) ==
    LET loop == AddLoop(string, 1, <<>>, 0, 0, draws)
        result == loop.result
        f_indices == FIndices(result, 1)
    IN  IF Len(string) > 10 /\ loop.branches_added < 3 /\ f_indices # <<>>
        THEN LET insert_pos == RandomChoice(Draw(draws, loop.k), f_indices)
                 branch_type == RandomChoice(Draw(draws, loop.k + 1), ExtraBranchTypes)
             IN  SubSeq(result, 1, insert_pos) \o branch_type
                    \o SubSeq(result, insert_pos + 1, Len(result))
        ELSE result

\* the corrective pass of generate takes the general complexity adder
UsesAddComplexity(s) == _is_too_simple(s) /\ ~(~Contains(s, "[") /\ Contains(s, "F"))

\* the simplicity check and the corrective pass that end generate
Corrected(s, draws) ==
    IF _is_too_simple(s)
    THEN IF ~Contains(s, "[") /\ Contains(s, "F")
         THEN ReplaceFFF(s, 2)
         ELSE _add_complexity(s, draws)
    ELSE s

-----------------------------------------------------------------------------
(* LSystem.get_vertices: vectors, colors and normals                        *)
(*                                                                          *)
(* A heading is [x, y, z, d], the vector (x/d, y/d, z/d); an angle is       *)
(* [c, s, h] with c*c + s*s = h*h, so that rotations are exact and keep the *)
(* heading a unit vector.  Positions and lengths are in 1/10000, widths in  *)
(* 1/1000000, color components in 1/1000.  The rounding of float32 is not   *)
(* modelled.                                                                *)

Up == [x |-> 0, y |-> 1, z |-> 0, d |-> 1]

Origin == <<0, 0, 0>>

\* position after ']' on an empty stack: (0.0, -0.5, 0.0)
ResetPosition == <<0, -5000, 0>>

Neg(a) == [c |-> a.c, s |-> -a.s, h |-> a.h]

_rotate_y(v, a) ==
    [x |-> v.x * a.c + v.z * a.s, y |-> v.y * a.h,
     z |-> (-v.x) * a.s + v.z * a.c, d |-> v.d * a.h]

_rotate_x(v, a) ==
    [x |-> v.x * a.h, y |-> v.y * a.c - v.z * a.s,
     z |-> v.y * a.s + v.z * a.c, d |-> v.d * a.h]

_rotate_z(v, a) ==
    [x |-> v.x * a.c - v.y * a.s, y |-> v.x * a.s + v.y * a.c,
     z |-> v.z * a.h, d |-> v.d * a.h]

\* position + direction * length
Advance(pos, dir, length) ==
    <<pos[1] + (dir.x * length) \div dir.d,
      pos[2] + (dir.y * length) \div dir.d,
      pos[3] + (dir.z * length) \div dir.d>>

Clip1(c) == IF c < 0 THEN 0 ELSE IF c > 1000 THEN 1000 ELSE c

\* np.clip(color, 0.0, 1.0)
Clip(color) == <<Clip1(color[1]), Clip1(color[2]), Clip1(color[3])>>

max_render_depth == 15

Min(a, b) == IF a < b THEN a ELSE b

\* the color before np.clip: trunk blended 30% towards leaf by depth, shifted by width
UnclippedSegmentColor(depth, max_depth, width) ==
    LET clamped_depth == Min(depth, max_depth)
        shift(k) == IF initial_width > 0
                    THEN (k * (initial_width - width)) \div initial_width
                    ELSE k
        target(i) == trunk_color[i] + ((leaf_color[i] - trunk_color[i]) * 3) \div 10
        base(i) == IF max_depth > 0
                   THEN (trunk_color[i] * (max_depth - clamped_depth)
                            + target(i) * clamped_depth) \div max_depth
                   ELSE trunk_color[i]
    IN  <<base(1) + shift(100), base(2) + shift(100), base(3) + shift(-50)>>

\* mutant of _compute_segment_color: the final np.clip is left out
SegmentColorNoClip(depth, max_depth, width) == UnclippedSegmentColor(depth, max_depth, width)

_compute_segment_color(depth, max_depth, width) ==
    Clip(UnclippedSegmentColor(depth, max_depth, width))

_compute_leaf_transition_color(depth, max_depth, width) ==
    LET branch_color == _compute_segment_color(depth, max_depth, width)
    IN  Clip(<<(branch_color[1] * 4 + leaf_color[1] * 6) \div 10,
               (branch_color[2] * 4 + leaf_color[2] * 6) \div 10,
               (branch_color[3] * 4 + leaf_color[3] * 6) \div 10>>)

\* A normal is [v, n2], the vector v / sqrt(n2).  The heading has denominator
\* d < 10^6, so a cross product with a non-zero integer component has norm
\* at least 1/d > 1e-6: the test norm > 1e-6 is the test n2 > 0.
CrossUp(dir) == <<-dir.z, 0, dir.x>>

CrossRight(dir) == <<0, dir.z, -dir.y>>

Norm2(v) == v[1] * v[1] + v[2] * v[2] + v[3] * v[3]

Forward == [v |-> <<0, 0, 1>>, n2 |-> 1]

\* mutant of _compute_normal: the cross product with up is used whatever its norm
NormalWithoutFallback(dir) == [v |-> CrossUp(dir), n2 |-> Norm2(CrossUp(dir))]

_compute_normal(dir) ==
    LET cross_up == CrossUp(dir)
        cross_right == CrossRight(dir)
    IN  IF Norm2(cross_up) > 0 THEN [v |-> cross_up, n2 |-> Norm2(cross_up)]
        ELSE IF Norm2(cross_right) > 0 THEN [v |-> cross_right, n2 |-> Norm2(cross_right)]
        ELSE Forward

\* max(current_length * 0.5, self.initial_length * 0.05)
LeafSize(length) ==
    IF length \div 2 > initial_length \div 20 THEN length \div 2 ELSE initial_length \div 20

\* width_reduction_factor: 0.1 ** (1/9) = 0.774 when initial_width > 0, else 1.0
ReduceWidth(width) == IF initial_width > 0 THEN (width * 774) \div 1000 ELSE width

\* current_length *= self.scale
ReduceLength(length) == (length * scale.num) \div scale.den

\* colors.extend(segment_color) once instead of twice
SegmentColorsOnce(buf, color) == Append(buf, color)

\* colors.extend(segment_color); colors.extend(segment_color)
SegmentColors(buf, color) == buf \o <<color, color>>

\* colors.extend(transition_color); colors.extend(self.leaf_color)
LeafColors(buf, transition_color) == buf \o <<transition_color, leaf_color>>

-----------------------------------------------------------------------------
(* The grammars the rewriter is run on *)

AxiomAlphabet == {"F", "[", "]"}

Str_FFFF == <<"F", "F", "F", "F">>
Str_X == <<"X">>
Str_bF == <<"[", "F", "]">>
Str_FbF == <<"F", "[", "F", "]">>

Axioms == SeqsUpTo(AxiomAlphabet, MaxAxiomLen) \cup {Str_X, Str_FFFF, Str_bF, Str_FbF}

NoRules == <<>>
DoubleF == [c \in {"F"} |-> <<"F", "F">>]
TurnF == [c \in {"F"} |-> <<"F", "+">>]
BranchX == [c \in {"X", "F"} |->
              IF c = "X"
              THEN <<"F", "[", "+", "X", "]", "[", "-", "X", "]", "F", "X">>
              ELSE <<"F", "F">>]
ErasePlus == [c \in {"F", "+"} |-> IF c = "F" THEN <<"X", "+">> ELSE <<>>]
OpenF == [c \in {"F"} |-> <<"F", "[">>]
CloseToX == [c \in {"]"} |-> <<"X">>]

RuleSets == {NoRules, DoubleF, TurnF, BranchX, ErasePlus, OpenF, CloseToX}

\* the draws of one call: the first decides random.random() < branch_probability
\* (its least and its greatest value), the second picks the pattern
Draws == {<<c, d>> : c \in {0, DrawRange - 1}, d \in 0..(DrawRange - 1)}

NoCall == [iterations |-> -1, length |-> 0, truncated |-> FALSE, simple |-> FALSE]

\* the constructor arguments of the objects the interpreter is run on; the
\* angles (jitter included) are 90 degrees and atan(5/12) = 22.6 degrees
Presets ==
    { [angle |-> [c |-> 12, s |-> 5, h |-> 13], initial_width |-> 50000,
       trunk_color |-> <<550, 270, 70>>,
       leaf_color |-> [kind |-> "tuple", c |-> <<0, 800, 0>>]],
      [angle |-> [c |-> 0, s |-> 1, h |-> 1], initial_width |-> 50000,
       trunk_color |-> <<1000, 1000, 0>>,
       leaf_color |-> [kind |-> "tuple", c |-> <<1000, 0, 1000>>]],
      [angle |-> [c |-> 12, s |-> 5, h |-> 13], initial_width |-> 0,
       trunk_color |-> <<550, 270, 70>>,
       leaf_color |-> [kind |-> "list", lo |-> <<0, 500, 0>>, hi |-> <<200, 1000, 100>>]],
      [angle |-> [c |-> 0, s |-> 1, h |-> 1], initial_width |-> 50000,
       trunk_color |-> <<0, 0, 1000>>,
       leaf_color |-> [kind |-> "none"]] }

\* random.uniform(lo, hi) for the draw d
Uniform(lo, hi, d) == lo + ((hi - lo) * d) \div DrawRange

\* the leaf color __init__ stores for the argument leaf_color and three draws
LeafColorOf(arg, ds) ==
    IF arg.kind = "list"
    THEN [i \in 1..3 |-> Uniform(arg.lo[i], arg.hi[i], ds[i])]
    ELSE IF arg.kind = "tuple"
    THEN [i \in 1..3 |-> Clip1(arg.c[i] + Uniform(-50, 50, ds[i]))]
    ELSE <<0, 800, 0>>

\* the draws of one construction: all least, all greatest, mixed
InitDraws ==
    {<<0, 0, 0>>, <<DrawRange - 1, DrawRange - 1, DrawRange - 1>>, <<0, DrawRange - 1, 0>>}

\* the appearance fields __init__ stores
Construct(p, ds) ==
    /\ angle = p.angle
    /\ scale = [num |-> 4, den |-> 5]
    /\ initial_length = 1000
    /\ initial_width = p.initial_width
    /\ trunk_color = p.trunk_color
    /\ leaf_color = LeafColorOf(p.leaf_color, ds)

DefaultPreset == CHOOSE p \in Presets : p.leaf_color.kind = "none"

NoResult == [returned |-> FALSE]

\* the locals of get_vertices as it enters its loop
TurtleEntry ==
    /\ char_index = 1
    /\ vertices = <<>> /\ colors = <<>> /\ normals = <<>>
    /\ stack = <<>>
    /\ position = Origin
    /\ direction = Up
    /\ current_length = initial_length
    /\ current_width = initial_width
    /\ branch_depth = 0
    /\ segments_since_turn_or_branch = 0
    /\ seg_dirs = <<>>
    /\ draws_made = 0
    /\ gv_result = NoResult

\* a ForestGenerator that has not been asked for positions
ForestIdle ==
    /\ min_distance = 1
    /\ tree_count = 0
    /\ positions = <<>>
    /\ tree_index = 0
    /\ positioned = FALSE
    /\ attempts = 0
    /\ where = "for"
    /\ skipped = 0

NoTape == [gen |-> <<0>>, turtle |-> <<>>]

NoObject == [set |-> FALSE]

NoRun == [done |-> FALSE]

\* ForestGenerator.__init__ with a new renderer: no tree, no object
SceneIdle ==
    /\ trees = <<>>
    /\ objects = {}
    /\ render_pc = "idle"
    /\ render_i = 0
    /\ shown = FALSE

NoStats == [height |-> 0, branch_count |-> 0, max_depth |-> 0]

\* no call has raised; LSystem.get_vertices is the interpreter
CallIdle ==
    /\ raised = "none"
    /\ gen_tape = <<>>
    /\ interpreter = "LSystem"
    /\ tree_stats = NoStats

\* no tree is being rendered
RunIdle ==
    /\ SceneIdle
    /\ CallIdle
    /\ tape = NoTape
    /\ placement = <<0, 0>>
    /\ rendered = NoObject
    /\ first_run = NoRun
    /\ scale_arg = [num |-> 4, den |-> 5]

\* LSystem.__init__: the grammar fields of a constructed object
GenInit ==
    /\ axiom \in Axioms
    /\ rules \in RuleSets
    /\ current_string = axiom
    /\ iterations = 0
    /\ returned = FALSE
    /\ rewritten = axiom
    /\ truncated = FALSE
    /\ prev = NoCall
    /\ Construct(DefaultPreset, <<0, 0, 0>>)
    /\ TurtleEntry
    /\ ForestIdle
    /\ RunIdle

\* what the call that has just returned leaves for the next call to compare with
Summary ==
    IF returned
    THEN [iterations |-> iterations, length |-> Len(current_string),
          truncated |-> truncated, simple |-> _is_too_simple(rewritten)]
    ELSE NoCall

\* mutant of Finish: the leaf color is jittered again at every call
FinishResamples(n, e, draws) ==
    /\ iterations' = n
    /\ rewritten' = e.s
    /\ truncated' = e.truncated
    /\ current_string' = Corrected(e.s, draws)
    /\ returned' = TRUE
    /\ prev' = Summary
    /\ leaf_color' = [i \in 1..3 |-> Clip1(leaf_color[i] + Uniform(-50, 50, draws[1]))]
    /\ UNCHANGED <<grammarVars, angle, scale, initial_length, initial_width, trunk_color>>
    /\ UNCHANGED <<turtleVars, forestVars, runVars>>

\* the end of generate(n): e is what the generation loop left, draws are the
\* random draws the corrective pass consumes
Finish(n, e, draws) ==
    /\ iterations' = n
    /\ rewritten' = e.s
    /\ truncated' = e.truncated
    /\ current_string' = Corrected(e.s, draws)
    /\ returned' = TRUE
    /\ prev' = Summary
    /\ UNCHANGED <<grammarVars, appearanceVars, turtleVars, forestVars, runVars>>

Generate ==
    \E n \in 0..MaxIterations :
        LET e == Expand(rules, axiom, 0, n)
        IN  IF UsesAddComplexity(e.s)
            THEN \E draws \in Draws : Finish(n, e, draws)
            ELSE Finish(n, e, <<0>>)

GenNext == Generate

SpecGen == GenInit /\ [][GenNext]_vars

-----------------------------------------------------------------------------
(* LSystem.get_vertices, one action per symbol read *)

TurtleAlphabet == {"F", "+", "-", "&", "^", "\\", "/", "[", "]", "X", "A"}

Opens(k) == [i \in 1..k |-> "["]

TurtleStrings ==
    {Opens(k) \o b : k \in {0, DeepPrefix},
                     b \in {<<>>, Str_FFFF} \cup SeqsUpTo(TurtleAlphabet, MaxBody)}

\* get_vertices is called on a freshly constructed object: current_string = axiom
TurtleInit ==
    /\ axiom \in TurtleStrings
    /\ rules = NoRules
    /\ current_string = axiom
    /\ iterations = 0
    /\ returned = FALSE
    /\ rewritten = axiom
    /\ truncated = FALSE
    /\ prev = NoCall
    /\ \E p \in Presets : \E ds \in InitDraws : Construct(p, ds)
    /\ TurtleEntry
    /\ ForestIdle
    /\ RunIdle

Reading == gv_result = NoResult /\ char_index <= Len(current_string)

char == current_string[char_index]

objectVars == <<grammarVars, appearanceVars, genVars>>

NoAngle == [c |-> 1, s |-> 0, h |-> 1]

\* random.uniform(-math.radians(3), math.radians(3)): 0 and atan(39/760) = 2.94 degrees
DevAngles == {NoAngle, [c |-> 760, s |-> 39, h |-> 761], [c |-> 760, s |-> -39, h |-> 761]}

\* random.uniform(-math.pi / 6, math.pi / 6): 0 and atan(5/12) = 22.6 degrees
LeafAngles == {NoAngle, [c |-> 12, s |-> 5, h |-> 13], [c |-> 12, s |-> -5, h |-> 13]}

RotateAbout(axis, v, a) ==
    IF axis = "x" THEN _rotate_x(v, a)
    ELSE IF axis = "y" THEN _rotate_y(v, a)
    ELSE _rotate_z(v, a)

\* 'F' drawn along dir, the heading after the random deviation if there was one
DrawF(dir) ==
    LET start == position
        end == Advance(position, dir, current_length)
        segment_color == _compute_segment_color(branch_depth, max_render_depth, current_width)
        segment_normal == _compute_normal(dir)
    IN  /\ vertices' = vertices \o <<start, end>>
        /\ colors' = SegmentColors(colors, segment_color)
        /\ normals' = normals \o <<segment_normal, segment_normal>>
        /\ seg_dirs' = seg_dirs \o <<dir, dir>>
        /\ draws_made' = IF segments_since_turn_or_branch > 2
                         THEN draws_made + 2
                         ELSE draws_made
        /\ direction' = dir
        /\ position' = end
        /\ segments_since_turn_or_branch' = segments_since_turn_or_branch + 1
        /\ char_index' = char_index + 1
        /\ UNCHANGED <<stack, current_length, current_width, branch_depth, gv_result>>
        /\ UNCHANGED <<objectVars, forestVars, runVars>>

StepF ==
    /\ Reading /\ char = "F"
    /\ IF segments_since_turn_or_branch > 2
       THEN \E dev_angle \in DevAngles : \E dev_axis \in {"x", "y", "z"} :
                DrawF(RotateAbout(dev_axis, direction, dev_angle))
       ELSE DrawF(direction)

Rotated(c) ==
    IF c = "+" THEN _rotate_y(direction, angle)
    ELSE IF c = "-" THEN _rotate_y(direction, Neg(angle))
    ELSE IF c = "&" THEN _rotate_x(direction, angle)
    ELSE IF c = "^" THEN _rotate_x(direction, Neg(angle))
    ELSE IF c = "\\" THEN _rotate_z(direction, angle)
    ELSE _rotate_z(direction, Neg(angle))

StepRotate ==
    /\ Reading /\ char \in RotationSymbols
    /\ segments_since_turn_or_branch' = 0
    /\ direction' = Rotated(char)
    /\ char_index' = char_index + 1
    /\ UNCHANGED <<vertices, colors, normals, seg_dirs, draws_made, stack, position,
                   current_length, current_width, branch_depth, gv_result>>
    /\ UNCHANGED <<objectVars, forestVars, runVars>>

\* mutant of StepPush: the state is saved after the length and the width are reduced
StepPushAfterShrink ==
    /\ Reading /\ char = "["
    /\ segments_since_turn_or_branch' = 0
    /\ stack' = Append(stack, [position |-> position, direction |-> direction,
                               current_length |-> ReduceLength(current_length),
                               current_width |-> ReduceWidth(current_width),
                               branch_depth |-> branch_depth])
    /\ current_length' = ReduceLength(current_length)
    /\ current_width' = ReduceWidth(current_width)
    /\ branch_depth' = branch_depth + 1
    /\ char_index' = char_index + 1
    /\ UNCHANGED <<vertices, colors, normals, seg_dirs, draws_made, position, direction, gv_result>>
    /\ UNCHANGED <<objectVars, forestVars, runVars>>

StepPush ==
    /\ Reading /\ char = "["
    /\ segments_since_turn_or_branch' = 0
    /\ stack' = Append(stack, [position |-> position, direction |-> direction,
                               current_length |-> current_length,
                               current_width |-> current_width,
                               branch_depth |-> branch_depth])
    /\ current_length' = ReduceLength(current_length)
    /\ current_width' = ReduceWidth(current_width)
    /\ branch_depth' = branch_depth + 1
    /\ char_index' = char_index + 1
    /\ UNCHANGED <<vertices, colors, normals, seg_dirs, draws_made, position, direction, gv_result>>
    /\ UNCHANGED <<objectVars, forestVars, runVars>>

\* mutant of PopState: the depth is counted down instead of restored
PopStateCountsDown ==
    LET top == stack[Len(stack)]
    IN  /\ stack' = SubSeq(stack, 1, Len(stack) - 1)
        /\ position' = top.position
        /\ direction' = top.direction
        /\ current_length' = top.current_length
        /\ current_width' = top.current_width
        /\ branch_depth' = top.branch_depth - 1

\* stack.pop()
PopState ==
    LET top == stack[Len(stack)]
    IN  /\ stack' = SubSeq(stack, 1, Len(stack) - 1)
        /\ position' = top.position
        /\ direction' = top.direction
        /\ current_length' = top.current_length
        /\ current_width' = top.current_width
        /\ branch_depth' = top.branch_depth

\* mutant of StepPop: on an empty stack the heading is kept
StepPopKeepsHeading ==
    /\ Reading /\ char = "]"
    /\ segments_since_turn_or_branch' = 0
    /\ IF stack # <<>>
       THEN PopState
       ELSE /\ position' = ResetPosition
            /\ direction' = direction
            /\ current_length' = initial_length
            /\ current_width' = initial_width
            /\ branch_depth' = 0
            /\ stack' = stack
    /\ char_index' = char_index + 1
    /\ UNCHANGED <<vertices, colors, normals, seg_dirs, draws_made, gv_result>>
    /\ UNCHANGED <<objectVars, forestVars, runVars>>

StepPop ==
    /\ Reading /\ char = "]"
    /\ segments_since_turn_or_branch' = 0
    /\ IF stack # <<>>
       THEN PopState
       ELSE /\ position' = ResetPosition
            /\ direction' = Up
            /\ current_length' = initial_length
            /\ current_width' = initial_width
            /\ branch_depth' = 0
            /\ stack' = stack
    /\ char_index' = char_index + 1
    /\ UNCHANGED <<vertices, colors, normals, seg_dirs, draws_made, gv_result>>
    /\ UNCHANGED <<objectVars, forestVars, runVars>>

\* mutant of DrawX: the turtle moves to the end of the leaf segment
DrawXAdvances(leaf_dir) ==
    LET start == position
        end == Advance(position, leaf_dir, LeafSize(current_length))
        transition_color ==
            _compute_leaf_transition_color(branch_depth, max_render_depth, current_width)
        leaf_normal == _compute_normal(leaf_dir)
    IN  /\ vertices' = vertices \o <<start, end>>
        /\ colors' = LeafColors(colors, transition_color)
        /\ normals' = normals \o <<leaf_normal, leaf_normal>>
        /\ seg_dirs' = seg_dirs \o <<leaf_dir, leaf_dir>>
        /\ draws_made' = draws_made + 2
        /\ char_index' = char_index + 1
        /\ position' = end
        /\ UNCHANGED <<stack, direction, current_length, current_width,
                       branch_depth, segments_since_turn_or_branch, gv_result>>
        /\ UNCHANGED <<objectVars, forestVars, runVars>>

\* 'X' drawn along leaf_dir, the heading after the two random rotations
DrawX(leaf_dir) ==
    LET start == position
        end == Advance(position, leaf_dir, LeafSize(current_length))
        transition_color ==
            _compute_leaf_transition_color(branch_depth, max_render_depth, current_width)
        leaf_normal == _compute_normal(leaf_dir)
    IN  /\ vertices' = vertices \o <<start, end>>
        /\ colors' = LeafColors(colors, transition_color)
        /\ normals' = normals \o <<leaf_normal, leaf_normal>>
        /\ seg_dirs' = seg_dirs \o <<leaf_dir, leaf_dir>>
        /\ draws_made' = draws_made + 2
        /\ char_index' = char_index + 1
        /\ UNCHANGED <<stack, position, direction, current_length, current_width,
                       branch_depth, segments_since_turn_or_branch, gv_result>>
        /\ UNCHANGED <<objectVars, forestVars, runVars>>

StepX ==
    /\ Reading /\ char = "X"
    /\ \E rand_angle_x \in LeafAngles : \E rand_angle_y \in LeafAngles :
          DrawX(_rotate_y(_rotate_x(direction, rand_angle_x), rand_angle_y))

\* mutant of StepOther: a symbol no branch handles draws a segment
StepOtherDraws ==
    /\ Reading /\ char \notin {"F", "[", "]", "X"} \cup RotationSymbols
    /\ DrawF(direction)

\* a symbol no branch of the loop handles
StepOther ==
    /\ Reading /\ char \notin {"F", "[", "]", "X"} \cup RotationSymbols
    /\ char_index' = char_index + 1
    /\ UNCHANGED <<vertices, colors, normals, seg_dirs, draws_made, stack, position, direction,
                   current_length, current_width, branch_depth,
                   segments_since_turn_or_branch, gv_result>>
    /\ UNCHANGED <<objectVars, forestVars, runVars>>

\* the end of the loop: the three buffers are returned as arrays
Return ==
    /\ gv_result = NoResult /\ char_index > Len(current_string)
    /\ gv_result' = IF vertices = <<>>
                    THEN [returned |-> TRUE, vertices |-> <<>>, colors |-> <<>>,
                          normals |-> <<>>]
                    ELSE [returned |-> TRUE, vertices |-> vertices, colors |-> colors,
                          normals |-> normals]
    /\ UNCHANGED <<char_index, vertices, colors, normals, seg_dirs, draws_made, stack, position,
                   direction, current_length, current_width, branch_depth,
                   segments_since_turn_or_branch>>
    /\ UNCHANGED <<objectVars, forestVars, runVars>>

TurtleNext == StepF \/ StepRotate \/ StepPush \/ StepPop \/ StepX \/ StepOther \/ Return

SpecTurtle == TurtleInit /\ [][TurtleNext]_vars

-----------------------------------------------------------------------------
(* ForestGenerator._generate_tree_positions, one action per loop step *)

\* random.uniform(-half_size, half_size), on the grid
Coordinates == (-HalfSize)..HalfSize

\* distance < self.min_distance, for distance = (dx**2 + dz**2)**0.5
TooClose(pos, existing_pos) ==
    LET dx == pos[1] - existing_pos[1]
        dz == pos[2] - existing_pos[2]
    IN  min_distance > 0 /\ dx * dx + dz * dz < min_distance * min_distance

\* mutant of _is_valid_position: only the last accepted position is compared
ValidAgainstLast(pos, ps) == ps = <<>> \/ ~TooClose(pos, ps[Len(ps)])

_is_valid_position(pos, ps) == \A i \in DOMAIN ps : ~TooClose(pos, ps[i])

\* mutant of Attempt: a rejected draw is not counted
AttemptUncounted ==
    /\ where = "while" /\ ~positioned /\ attempts < max_attempts
    /\ \E x \in Coordinates : \E z \in Coordinates :
          IF _is_valid_position(<<x, z>>, positions)
          THEN /\ positions' = Append(positions, <<x, z>>) /\ positioned' = TRUE
               /\ attempts' = attempts + 1
          ELSE UNCHANGED <<positions, positioned, attempts>>
    /\ UNCHANGED <<min_distance, tree_count, tree_index, where, skipped>>
    /\ UNCHANGED <<objectVars, turtleVars, runVars>>

\* a ForestGenerator entering _generate_tree_positions(tree_count)
ForestInit ==
    /\ axiom = <<"F">>
    /\ rules = NoRules
    /\ current_string = axiom
    /\ iterations = 0
    /\ returned = FALSE
    /\ rewritten = axiom
    /\ truncated = FALSE
    /\ prev = NoCall
    /\ Construct(DefaultPreset, <<0, 0, 0>>)
    /\ TurtleEntry
    /\ min_distance \in {2, 3}
    /\ tree_count \in 0..MaxCount
    /\ positions = <<>>
    /\ tree_index = 0
    /\ positioned = FALSE
    /\ attempts = 0
    /\ where = "for"
    /\ skipped = 0
    /\ RunIdle

\* for _ in range(tree_count): positioned = False; attempts = 0
StartTree ==
    /\ where = "for" /\ tree_index < tree_count
    /\ positioned' = FALSE
    /\ attempts' = 0
    /\ where' = "while"
    /\ UNCHANGED <<min_distance, tree_count, positions, tree_index, skipped>>
    /\ UNCHANGED <<objectVars, turtleVars, runVars>>

\* one pass of the while loop: a draw, accepted if it is far enough from all
Attempt ==
    /\ where = "while" /\ ~positioned /\ attempts < max_attempts
    /\ \E x \in Coordinates : \E z \in Coordinates :
          IF _is_valid_position(<<x, z>>, positions)
          THEN positions' = Append(positions, <<x, z>>) /\ positioned' = TRUE
          ELSE UNCHANGED <<positions, positioned>>
    /\ attempts' = attempts + 1
    /\ UNCHANGED <<min_distance, tree_count, tree_index, where, skipped>>
    /\ UNCHANGED <<objectVars, turtleVars, runVars>>

\* the while loop ends; a tree that found no place is logged and given up
EndTree ==
    /\ where = "while" /\ (positioned \/ attempts >= max_attempts)
    /\ skipped' = IF positioned THEN skipped ELSE skipped + 1
    /\ tree_index' = tree_index + 1
    /\ where' = "for"
    /\ UNCHANGED <<min_distance, tree_count, positions, positioned, attempts>>
    /\ UNCHANGED <<objectVars, turtleVars, runVars>>

\* return positions
ReturnPositions ==
    /\ where = "for" /\ tree_index = tree_count
    /\ where' = "done"
    /\ UNCHANGED <<min_distance, tree_count, positions, tree_index, positioned, attempts, skipped>>
    /\ UNCHANGED <<objectVars, turtleVars, runVars>>

ForestNext == StartTree \/ Attempt \/ EndTree \/ ReturnPositions

SpecForest == ForestInit /\ [][ForestNext]_vars

\* the loops are sequential code: a step that can be taken is taken
SpecForestLive == ForestInit /\ [][ForestNext]_vars /\ WF_vars(ForestNext)

-----------------------------------------------------------------------------
(* One tree of ForestGenerator.render_forest: generate, get_vertices, the    *)
(* translation by the placement and setup_object; then the same calls again  *)
(* on the same object with the same draws.  The angle of these objects is 90 *)
(* degrees and only the first two draws of get_vertices are off the middle   *)
(* of their range, which keeps the exact headings of long strings small.     *)

\* the length cap of generate at the value the code gives it
max_string_length_code == 80000

RECURSIVE ExpandWithin(_, _, _, _, _)
\* the generation loop of generate for a length cap of cap
ExpandWithin(rs, current, i, n, cap) ==
    IF i = n
    THEN [s |-> current, truncated |-> FALSE]
    ELSE LET next_gen == ApplyRules(rs, current)
         IN  IF Len(next_gen) > cap
             THEN [s |-> TruncateRepair(SubSeq(next_gen, 1, cap)), truncated |-> TRUE]
             ELSE ExpandWithin(rs, next_gen, i + 1, n, cap)

\* mutant of GenerateStart: the rewriting goes on from the string of the last call
GenerateStartCurrent == current_string

\* current = self.axiom
GenerateStart == axiom

\* mutant of RunExpand: the cap is max_string_length, below the scenario's length
RunExpandLowCap(n) == ExpandWithin(rules, GenerateStart, 0, n, max_string_length)

\* the generation loop of generate(n) as the code runs it
RunExpand(n) == ExpandWithin(rules, GenerateStart, 0, n, max_string_length_code)

\* the draw in the middle of the range
MidDraw == DrawRange \div 2

\* the k-th draw (from 0) of get_vertices: the tape, then the middle of the range
TurtleDraw(k) == IF k < Len(tape.turtle) THEN tape.turtle[k + 1] ELSE MidDraw

\* random.uniform(-a, a) for the draw d, as the nearest of the angles -a, 0, a
UniformAngle(d, a) ==
    IF 3 * d < DrawRange THEN Neg(a)
    ELSE IF 3 * d < 2 * DrawRange THEN NoAngle
    ELSE a

\* math.radians(3), as atan(39/760)
DevAngle == [c |-> 760, s |-> 39, h |-> 761]

\* math.pi / 6, as atan(5/12)
LeafAngle == [c |-> 12, s |-> 5, h |-> 13]

\* np.array(vertices): the list the loop extends by three numbers per vertex
AsArray(vs) == [i \in 1..(3 * Len(vs)) |-> vs[((i - 1) \div 3) + 1][((i - 1) % 3) + 1]]

\* mutant of Translate: the offsets are added to all three coordinates
TranslateAllAxes(arr, x, z) == [i \in DOMAIN arr |-> arr[i] + x * 10000 + z * 10000]

\* for j in range(0, len, 3): transformed_vertices[j] += x; transformed_vertices[j+2] += z
Translate(arr, x, z) ==
    [i \in DOMAIN arr |->
        IF (i - 1) % 3 = 0 THEN arr[i] + x * 10000
        ELSE IF (i - 1) % 3 = 2 THEN arr[i] + z * 10000
        ELSE arr[i]]

\* setup_object(np.array([]), np.array([]), np.array([]), object_id)
EmptyObject == [set |-> TRUE, vertices |-> <<>>, colors |-> <<>>, normals |-> <<>>]

RunAxioms == {Str_X, Str_FFFF, Str_bF, <<"]", "A", "F">>}

RunRuleSets == {NoRules, DoubleF, BranchX}

\* the scale argument: 0.8 and 0.99 inside (0, 1), and two values outside
Scales ==
    {[num |-> 4, den |-> 5], [num |-> 99, den |-> 100],
     [num |-> 3, den |-> 2], [num |-> 0, den |-> 1]}

\* scale * random.uniform(0.98, 1.02) for the draw d
ScaleJitter(sc, d) ==
    [num |-> sc.num * (98 * DrawRange + 4 * d), den |-> sc.den * 100 * DrawRange]

\* the scale argument with the draw that jitters it: the least draw for every
\* argument, the greatest as well for the argument next to 1
Constructions ==
    {k \in [scale : Scales, d : {0, DrawRange - 1}] :
         k.d = 0 \/ 100 * k.scale.num = 99 * k.scale.den}

RunPresets == {p \in Presets : p.angle.h = 1}

RunTapes ==
    { [gen |-> <<0, 0>>, turtle |-> <<MidDraw, MidDraw>>],
      [gen |-> <<DrawRange - 1, 3>>, turtle |-> <<0, DrawRange - 1>>],
      [gen |-> <<0, 5>>, turtle |-> <<DrawRange - 1, 0>>] }

\* LSystem.__init__ for the argument scale and the draw d of its jitter
ConstructScaled(p, ds, sc, d) ==
    /\ angle = p.angle
    /\ scale = ScaleJitter(sc, d)
    /\ initial_length = 1000
    /\ initial_width = p.initial_width
    /\ trunk_color = p.trunk_color
    /\ leaf_color = LeafColorOf(p.leaf_color, ds)

\* a constructed tree at its placement, before render_forest reaches it
RunInit ==
    /\ axiom \in RunAxioms
    /\ rules \in RunRuleSets
    /\ current_string = axiom
    /\ iterations = 0
    /\ returned = FALSE
    /\ rewritten = axiom
    /\ truncated = FALSE
    /\ prev = NoCall
    /\ \E p \in RunPresets : \E k \in Constructions :
          /\ ConstructScaled(p, <<0, DrawRange - 1, 0>>, k.scale, k.d)
          /\ scale_arg = k.scale
    /\ TurtleEntry
    /\ ForestIdle
    /\ tape \in RunTapes
    /\ placement \in {<<0, 0>>, <<HalfSize, -HalfSize>>}
    /\ rendered = NoObject
    /\ first_run = NoRun
    /\ SceneIdle
    /\ CallIdle

\* lsystem.generate(iterations)
RunGenerate ==
    /\ ~returned /\ first_run = NoRun
    /\ \E n \in 0..MaxRunIterations : Finish(n, RunExpand(n), tape.gen)

RunStepF ==
    /\ returned /\ Reading /\ char = "F"
    /\ IF segments_since_turn_or_branch > 2
       THEN LET dev_angle == UniformAngle(TurtleDraw(draws_made), DevAngle)
                dev_axis == RandomChoice(TurtleDraw(draws_made + 1), <<"x", "y", "z">>)
            IN  DrawF(RotateAbout(dev_axis, direction, dev_angle))
       ELSE DrawF(direction)

RunStepRotate == returned /\ StepRotate

RunStepPush == returned /\ StepPush

RunStepPop == returned /\ StepPop

RunStepX ==
    /\ returned /\ Reading /\ char = "X"
    /\ LET rand_angle_x == UniformAngle(TurtleDraw(draws_made), LeafAngle)
           rand_angle_y == UniformAngle(TurtleDraw(draws_made + 1), LeafAngle)
       IN  DrawX(_rotate_y(_rotate_x(direction, rand_angle_x), rand_angle_y))

RunStepOther == returned /\ StepOther

RunReturn == returned /\ Return

\* the vertices are translated when there are any, and handed to the renderer
\* with the colors and the normals
Render ==
    /\ gv_result.returned /\ rendered = NoObject
    /\ rendered' =
          IF gv_result.vertices # <<>>
          THEN [set |-> TRUE,
                vertices |-> Translate(AsArray(gv_result.vertices),
                                       placement[1], placement[2]),
                colors |-> gv_result.colors,
                normals |-> gv_result.normals]
          ELSE EmptyObject
    /\ UNCHANGED <<tape, placement, first_run, scale_arg, sceneVars, callVars>>
    /\ UNCHANGED <<objectVars, turtleVars, forestVars>>

\* mutant of RunGenerateAgain: the second generate leaves current_string alone
RunGenerateAgainKeepsString ==
    /\ rendered # NoObject /\ first_run = NoRun
    /\ first_run' = [done |-> TRUE, iterations |-> iterations,
                     current_string |-> current_string,
                     result |-> gv_result, rendered |-> rendered]
    /\ \E n \in {iterations, 0} :
          LET e == RunExpand(n)
          IN  /\ iterations' = n
              /\ rewritten' = e.s
              /\ truncated' = e.truncated
              /\ current_string' = current_string
              /\ returned' = TRUE
              /\ prev' = Summary
    /\ char_index' = 1
    /\ vertices' = <<>> /\ colors' = <<>> /\ normals' = <<>>
    /\ stack' = <<>>
    /\ position' = Origin
    /\ direction' = Up
    /\ current_length' = initial_length
    /\ current_width' = initial_width
    /\ branch_depth' = 0
    /\ segments_since_turn_or_branch' = 0
    /\ seg_dirs' = <<>>
    /\ draws_made' = 0
    /\ gv_result' = NoResult
    /\ rendered' = NoObject
    /\ UNCHANGED <<tape, placement, scale_arg, sceneVars, callVars>>
    /\ UNCHANGED <<grammarVars, appearanceVars, forestVars>>

\* a second pair of calls on the same object: generate with the same draws,
\* for the same number of generations or for none, and get_vertices, which
\* enters its loop with fresh locals
RunGenerateAgain ==
    /\ rendered # NoObject /\ first_run = NoRun
    /\ first_run' = [done |-> TRUE, iterations |-> iterations,
                     current_string |-> current_string,
                     result |-> gv_result, rendered |-> rendered]
    /\ \E n \in {iterations, 0} :
          LET e == RunExpand(n)
          IN  /\ iterations' = n
              /\ rewritten' = e.s
              /\ truncated' = e.truncated
              /\ current_string' = Corrected(e.s, tape.gen)
              /\ returned' = TRUE
              /\ prev' = Summary
    /\ char_index' = 1
    /\ vertices' = <<>> /\ colors' = <<>> /\ normals' = <<>>
    /\ stack' = <<>>
    /\ position' = Origin
    /\ direction' = Up
    /\ current_length' = initial_length
    /\ current_width' = initial_width
    /\ branch_depth' = 0
    /\ segments_since_turn_or_branch' = 0
    /\ seg_dirs' = <<>>
    /\ draws_made' = 0
    /\ gv_result' = NoResult
    /\ rendered' = NoObject
    /\ UNCHANGED <<tape, placement, scale_arg, sceneVars, callVars>>
    /\ UNCHANGED <<grammarVars, appearanceVars, forestVars>>

RunNext ==
    \/ RunGenerate \/ RunStepF \/ RunStepRotate \/ RunStepPush \/ RunStepPop
    \/ RunStepX \/ RunStepOther \/ RunReturn \/ Render \/ RunGenerateAgain

SpecRun == RunInit /\ [][RunNext]_vars

-----------------------------------------------------------------------------
(* LSystem.generate for rules of any value type.  A replacement is           *)
(* [kind |-> "str", s |-> string] or [kind |-> "list", alts |-> strings].    *)

Str_F == <<"F">>

\* a rules dictionary whose values are all strings
Tagged(rs) == [c \in DOMAIN rs |-> [kind |-> "str", s |-> rs[c]]]

\* {'F': ['FF', 'F[+F]']}
AltF ==
    [c \in {"F"} |->
        [kind |-> "list", alts |-> <<<<"F", "F">>, <<"F", "[", "+", "F", "]">>>>]]

\* {'X': ['F', 'FX']}
AltX == [c \in {"X"} |-> [kind |-> "list", alts |-> <<<<"F">>, <<"F", "X">>>>]]

AnyRuleSets == {Tagged(NoRules), Tagged(DoubleF), Tagged(TurnF), Tagged(BranchX), AltF, AltX}

AnyAxioms == {Str_F, Str_X, Str_FFFF, Str_FbF}

\* the rules whose value is a string
StrRules(rs) == [c \in {k \in DOMAIN rs : rs[k].kind = "str"} |-> rs[c].s]

\* next_gen += self.rules[char] raises TypeError when the value is not a string
ConcatRaises(rs, current) ==
    \E i \in DOMAIN current :
        current[i] \in DOMAIN rs /\ rs[current[i]].kind # "str"

RECURSIVE ExpandAny(_, _, _, _)
\* the generation loop, with the exception that ends it
ExpandAny(rs, current, i, n) ==
    IF i = n
    THEN [raised |-> "none", s |-> current, truncated |-> FALSE]
    ELSE IF ConcatRaises(rs, current)
    THEN [raised |-> "TypeError", s |-> current, truncated |-> FALSE]
    ELSE LET next_gen == ApplyRules(StrRules(rs), current)
         IN  IF Len(next_gen) > max_string_length
             THEN [raised |-> "none",
                   s |-> TruncateRepair(SubSeq(next_gen, 1, max_string_length)),
                   truncated |-> TRUE]
             ELSE ExpandAny(rs, next_gen, i + 1, n)

\* a LSystem constructed with rules of any value type
AnyInit ==
    /\ axiom \in AnyAxioms
    /\ rules \in AnyRuleSets
    /\ current_string = axiom
    /\ iterations = 0
    /\ returned = FALSE
    /\ rewritten = axiom
    /\ truncated = FALSE
    /\ prev = NoCall
    /\ Construct(DefaultPreset, <<0, 0, 0>>)
    /\ TurtleEntry
    /\ ForestIdle
    /\ RunIdle

\* the values of random.random() for k symbols: all least, all greatest, and
\* the two in turn
GenTapes(k) ==
    {[j \in 1..k |-> 0], [j \in 1..k |-> DrawRange - 1],
     [j \in 1..k |-> IF j % 2 = 0 THEN 0 ELSE DrawRange - 1]}

\* generate(n), while random.random() would give us[j] for symbol j of the
\* axiom: the generation loop draws nothing; an exception leaves
\* current_string as it was
GenerateAny ==
    \E n \in 0..MaxAnyIterations : \E us \in GenTapes(Len(axiom)) :
        LET e == ExpandAny(rules, axiom, 0, n)
        IN  /\ iterations' = n
            /\ gen_tape' = us
            /\ raised' = e.raised
            /\ IF e.raised = "none"
               THEN /\ rewritten' = e.s
                    /\ truncated' = e.truncated
                    /\ \E draws \in (IF UsesAddComplexity(e.s) THEN Draws ELSE {<<0>>}) :
                          current_string' = Corrected(e.s, draws)
                    /\ returned' = TRUE
                    /\ prev' = Summary
               ELSE UNCHANGED <<current_string, returned, rewritten, truncated, prev>>
            /\ UNCHANGED <<interpreter, tree_stats>>
            /\ UNCHANGED <<tape, placement, rendered, first_run, scale_arg, sceneVars>>
            /\ UNCHANGED <<grammarVars, appearanceVars, turtleVars, forestVars>>

AnyNext == GenerateAny

SpecAny == AnyInit /\ [][AnyNext]_vars

-----------------------------------------------------------------------------
(* The other stack-based interpreters: Tree._interpret_instructions of      *)
(* tree.py and LSystem.get_vertices of try.py, one action per symbol read.  *)
(* The locals share the variables of LSystem.get_vertices: current_width is *)
(* current_radius and branch_depth is depth in Tree, vertices holds         *)
(* Tree.branches.                                                           *)

OtherAlphabet == {"F", "+", "&", "\\", "[", "]", "X"}

OtherStrings == SeqsUpTo(OtherAlphabet, MaxOtherLen)

\* 90 degrees and 180 degrees, which keep the headings integral
Quarter == [c |-> 0, s |-> 1, h |-> 1]

HalfTurn == [c |-> -1, s |-> 0, h |-> 1]

\* self.angle / 2 for the angle of 180 degrees
TreeHalfAngle == Quarter

IsTree == interpreter = "Tree"

\* the locals at the entry of the loop: Tree starts at the origin with
\* length 1.0 and radius 0.1, try.py at (0, -0.8, 0) with length 0.1 and width 0.03
OtherInit ==
    /\ interpreter \in {"Tree", "try"}
    /\ current_string \in OtherStrings
    /\ axiom = current_string
    /\ rules = NoRules
    /\ iterations = 0
    /\ returned = FALSE
    /\ rewritten = axiom
    /\ truncated = FALSE
    /\ prev = NoCall
    /\ angle = (IF IsTree THEN HalfTurn ELSE Quarter)
    /\ scale = [num |-> 4, den |-> 5]
    /\ initial_length = (IF IsTree THEN 10000 ELSE 1000)
    /\ initial_width = (IF IsTree THEN 100000 ELSE 30000)
    /\ trunk_color = <<550, 270, 70>>
    /\ leaf_color = <<0, 800, 0>>
    /\ char_index = 1
    /\ vertices = <<>> /\ colors = <<>> /\ normals = <<>>
    /\ stack = <<>>
    /\ position = (IF IsTree THEN Origin ELSE <<0, -8000, 0>>)
    /\ direction = Up
    /\ current_length = initial_length
    /\ current_width = initial_width
    /\ branch_depth = 0
    /\ segments_since_turn_or_branch = 0
    /\ seg_dirs = <<>>
    /\ draws_made = 0
    /\ gv_result = NoResult
    /\ ForestIdle
    /\ tape = NoTape
    /\ placement = <<0, 0>>
    /\ rendered = NoObject
    /\ first_run = NoRun
    /\ scale_arg = scale
    /\ SceneIdle
    /\ raised = "none"
    /\ gen_tape = <<>>
    /\ tree_stats = NoStats

\* what no step of these interpreters changes
otherFrame ==
    <<objectVars, forestVars, tape, placement, rendered, first_run, scale_arg,
      sceneVars, gen_tape, interpreter, normals, segments_since_turn_or_branch, seg_dirs>>

OtherReading ==
    raised = "none" /\ gv_result = NoResult /\ char_index <= Len(current_string)

Max(a, b) == IF a > b THEN a ELSE b

\* 'F': a segment from the position along the heading; the turtle moves to its end
OtherStepF ==
    /\ OtherReading /\ char = "F"
    /\ LET end == Advance(position, direction, current_length)
       IN  /\ position' = end
           /\ IF IsTree
              THEN /\ vertices' = Append(vertices,
                                         [start |-> position, end |-> end,
                                          radius |-> current_width, depth |-> branch_depth])
                   /\ tree_stats' = [tree_stats EXCEPT !.height = Max(@, end[2]),
                                                       !.branch_count = @ + 1]
                   /\ UNCHANGED colors
              ELSE /\ vertices' = vertices \o <<position, end>>
                   /\ colors' = colors \o <<trunk_color, trunk_color>>
                   /\ UNCHANGED tree_stats
    /\ char_index' = char_index + 1
    /\ UNCHANGED <<stack, direction, current_length, current_width, branch_depth,
                   draws_made, gv_result, raised>>
    /\ UNCHANGED otherFrame

\* the symbols each interpreter turns on
OtherTurns == IF IsTree THEN {"+", "-", "&", "^"} ELSE RotationSymbols

\* Tree turns about z by the angle or half of it; try.py about y, x and z
OtherTurned(c) ==
    IF IsTree
    THEN CASE c = "+" -> _rotate_z(direction, angle)
           [] c = "-" -> _rotate_z(direction, Neg(angle))
           [] c = "&" -> _rotate_z(direction, TreeHalfAngle)
           [] c = "^" -> _rotate_z(direction, Neg(TreeHalfAngle))
    ELSE CASE c = "+" -> _rotate_y(direction, angle)
           [] c = "-" -> _rotate_y(direction, Neg(angle))
           [] c = "&" -> _rotate_x(direction, angle)
           [] c = "^" -> _rotate_x(direction, Neg(angle))
           [] c = "\\" -> _rotate_z(direction, angle)
           [] c = "/" -> _rotate_z(direction, Neg(angle))

OtherStepRotate ==
    /\ OtherReading /\ char \in OtherTurns
    /\ direction' = OtherTurned(char)
    /\ char_index' = char_index + 1
    /\ UNCHANGED <<vertices, colors, stack, position, current_length, current_width,
                   branch_depth, draws_made, gv_result, raised, tree_stats>>
    /\ UNCHANGED otherFrame

\* '[': Tree saves (position, direction, current_radius, depth), then counts
\* the depth up and multiplies the radius by radius_decay = 0.75; try.py saves
\* (position, direction, branch_length, branch_width), then multiplies the
\* length and the width by scale
OtherStepPush ==
    /\ OtherReading /\ char = "["
    /\ IF IsTree
       THEN /\ stack' = Append(stack, [position |-> position, direction |-> direction,
                                       current_radius |-> current_width,
                                       depth |-> branch_depth])
            /\ branch_depth' = branch_depth + 1
            /\ tree_stats' = [tree_stats EXCEPT !.max_depth = Max(@, branch_depth + 1)]
            /\ current_width' = (current_width * 75) \div 100
            /\ UNCHANGED current_length
       ELSE /\ stack' = Append(stack, [position |-> position, direction |-> direction,
                                       branch_length |-> current_length,
                                       branch_width |-> current_width])
            /\ current_length' = ReduceLength(current_length)
            /\ current_width' = (current_width * scale.num) \div scale.den
            /\ UNCHANGED <<branch_depth, tree_stats>>
    /\ char_index' = char_index + 1
    /\ UNCHANGED <<vertices, colors, position, direction, draws_made, gv_result, raised>>
    /\ UNCHANGED otherFrame

\* ']': stack.pop(), which raises IndexError on an empty list
OtherStepPop ==
    /\ OtherReading /\ char = "]"
    /\ IF stack = <<>>
       THEN /\ raised' = "IndexError"
            /\ UNCHANGED <<stack, position, direction, current_length, current_width,
                           branch_depth, char_index>>
       ELSE LET top == stack[Len(stack)]
            IN  /\ stack' = SubSeq(stack, 1, Len(stack) - 1)
                /\ position' = top.position
                /\ direction' = top.direction
                /\ IF IsTree
                   THEN /\ current_width' = top.current_radius
                        /\ branch_depth' = top.depth
                        /\ UNCHANGED current_length
                   ELSE /\ current_length' = top.branch_length
                        /\ current_width' = top.branch_width
                        /\ UNCHANGED branch_depth
                /\ char_index' = char_index + 1
                /\ UNCHANGED raised
    /\ UNCHANGED <<vertices, colors, draws_made, gv_result, tree_stats>>
    /\ UNCHANGED otherFrame

Abs(a) == IF a < 0 THEN -a ELSE a

\* math.sqrt, rounded down, of the sum of the squares of v
Length(v) ==
    LET sum == v[1] * v[1] + v[2] * v[2] + v[3] * v[3]
    IN  CHOOSE r \in 0..(Abs(v[1]) + Abs(v[2]) + Abs(v[3])) :
            r * r <= sum /\ (r + 1) * (r + 1) > sum

\* direction[i] + (random.random() - 0.5) * 0.2 for the three draws ds, in
\* units of 1 / (10 * DrawRange * direction.d)
LeafDir(ds) ==
    <<10 * DrawRange * direction.x + (2 * ds[1] - DrawRange) * direction.d,
      10 * DrawRange * direction.y + (2 * ds[2] - DrawRange) * direction.d,
      10 * DrawRange * direction.z + (2 * ds[3] - DrawRange) * direction.d>>

\* 'X' in try.py: a leaf segment of length 0.8 * branch_length along the
\* jittered heading, normalized when it is not zero
OtherStepX ==
    /\ OtherReading /\ char = "X" /\ ~IsTree
    /\ \E ds \in InitDraws :
          LET leaf_dir == LeafDir(ds)
              length == Length(leaf_dir)
              leaf_size == (current_length * 8) \div 10
              end == IF length > 0
                     THEN [i \in 1..3 |-> position[i] + (leaf_dir[i] * leaf_size) \div length]
                     ELSE position
          IN  /\ vertices' = vertices \o <<position, end>>
              /\ colors' = colors \o <<trunk_color, leaf_color>>
    /\ draws_made' = draws_made + 3
    /\ char_index' = char_index + 1
    /\ UNCHANGED <<stack, position, direction, current_length, current_width,
                   branch_depth, gv_result, raised, tree_stats>>
    /\ UNCHANGED otherFrame

\* a symbol without a branch in the loop
OtherStepOther ==
    /\ OtherReading
    /\ char \notin {"F", "[", "]"} \cup OtherTurns
    /\ IsTree \/ char # "X"
    /\ char_index' = char_index + 1
    /\ UNCHANGED <<vertices, colors, stack, position, direction, current_length,
                   current_width, branch_depth, draws_made, gv_result, raised, tree_stats>>
    /\ UNCHANGED otherFrame

\* the loop has read the whole string: the interpreter returns
OtherReturn ==
    /\ raised = "none" /\ gv_result = NoResult
    /\ char_index > Len(current_string)
    /\ gv_result' = [returned |-> TRUE, vertices |-> vertices, colors |-> colors]
    /\ UNCHANGED <<char_index, vertices, colors, stack, position, direction,
                   current_length, current_width, branch_depth, draws_made, raised,
                   tree_stats>>
    /\ UNCHANGED otherFrame

OtherNext ==
    \/ OtherStepF \/ OtherStepRotate \/ OtherStepPush \/ OtherStepPop
    \/ OtherStepX \/ OtherStepOther \/ OtherReturn

SpecOther == OtherInit /\ [][OtherNext]_vars

-----------------------------------------------------------------------------
(* ForestGenerator.generate_forest and render_forest on one renderer *)

\* a tree of the forest, by what get_vertices returns when it is rendered:
\* segments, or nothing (no 'F' and no 'X' in its string, or an exception)
TreeKinds == {"drawn", "empty"}

\* a new ForestGenerator on a new renderer
SceneInit ==
    /\ axiom = Str_X
    /\ rules = BranchX
    /\ current_string = axiom
    /\ iterations = 0
    /\ returned = FALSE
    /\ rewritten = axiom
    /\ truncated = FALSE
    /\ prev = NoCall
    /\ Construct(DefaultPreset, <<0, 0, 0>>)
    /\ TurtleEntry
    /\ ForestIdle
    /\ RunIdle

\* generate_forest: self.trees becomes the list of the trees that found a
\* position, at most the tree count
GenerateForest ==
    /\ render_pc = "idle"
    /\ \E k \in 0..MaxCount : \E ts \in [1..k -> TreeKinds] : trees' = ts
    /\ shown' = FALSE
    /\ UNCHANGED <<objects, render_pc, render_i>>
    /\ UNCHANGED <<tape, placement, rendered, first_run, scale_arg, callVars>>
    /\ UNCHANGED <<objectVars, turtleVars, forestVars>>

\* setup_object with empty arrays: the object is deleted if it is registered
DeleteObject(id) == objects \ {id}

\* setup_object with vertices and colors: the object is registered
RegisterObject(id) == objects \cup {id}

\* render_forest is called: it returns at once when there are no trees
RenderForestEnter ==
    /\ render_pc = "idle"
    /\ IF trees = <<>>
       THEN shown' = TRUE /\ UNCHANGED <<render_pc, render_i>>
       ELSE render_pc' = "clear" /\ render_i' = 0 /\ shown' = FALSE
    /\ UNCHANGED <<trees, objects>>
    /\ UNCHANGED <<tape, placement, rendered, first_run, scale_arg, callVars>>
    /\ UNCHANGED <<objectVars, turtleVars, forestVars>>

\* for i in range(len(self.trees)): setup_object(empty arrays, "tree_i")
ClearStep ==
    /\ render_pc = "clear"
    /\ IF render_i < Len(trees)
       THEN /\ objects' = DeleteObject(render_i)
            /\ render_i' = render_i + 1
            /\ UNCHANGED render_pc
       ELSE /\ render_pc' = "draw"
            /\ render_i' = 0
            /\ UNCHANGED objects
    /\ UNCHANGED <<trees, shown>>
    /\ UNCHANGED <<tape, placement, rendered, first_run, scale_arg, callVars>>
    /\ UNCHANGED <<objectVars, turtleVars, forestVars>>

\* for i, (tree_def, position) in enumerate(self.trees): setup_object is called
\* when there are vertices; after the last tree render_forest returns
DrawStep ==
    /\ render_pc = "draw"
    /\ IF render_i < Len(trees)
       THEN /\ objects' = (IF trees[render_i + 1] = "drawn"
                           THEN RegisterObject(render_i)
                           ELSE objects)
            /\ render_i' = render_i + 1
            /\ UNCHANGED <<render_pc, shown>>
       ELSE /\ render_pc' = "idle"
            /\ render_i' = 0
            /\ shown' = TRUE
            /\ UNCHANGED objects
    /\ UNCHANGED trees
    /\ UNCHANGED <<tape, placement, rendered, first_run, scale_arg, callVars>>
    /\ UNCHANGED <<objectVars, turtleVars, forestVars>>

SceneNext == GenerateForest \/ RenderForestEnter \/ ClearStep \/ DrawStep

SpecScene == SceneInit /\ [][SceneNext]_vars

-----------------------------------------------------------------------------
(* Claims about LSystem.generate *)

\* the axiom and every replacement are balanced and no rule rewrites a bracket
BalancedGrammar ==
    /\ Balanced(axiom)
    /\ \A c \in DOMAIN rules : c \notin {"[", "]"} /\ Balanced(rules[c])

\* C1 as stated: for every axiom and rule set the returned string is balanced
C1_BalancedForEveryGrammar == returned => Balanced(current_string)

\* C1 amended: when the axiom and every replacement are balanced and no rule
\* rewrites '[' or ']', the string returned by generate (after the truncation
\* repair and after the corrective pass) has as many '[' as ']' and no prefix
\* with more ']' than '['
C1_BalancedOutput == (returned /\ BalancedGrammar) => Balanced(current_string)

\* a balanced grammar whose rewriting hit the cap, lost symbols to the repair
\* and was then given branches by the corrective pass
C1_Witness ==
    /\ returned /\ BalancedGrammar /\ truncated
    /\ Len(rewritten) < max_string_length
    /\ current_string # rewritten
    /\ Contains(current_string, "[")

\* C2: generate always returns a non-empty string
C2_NonEmptyResult == returned => current_string # <<>>

\* C3 as stated: with 0 generations generate returns the axiom, for every axiom
C3_ZeroGenerationsReturnsAxiom == (returned /\ iterations = 0) => current_string = axiom

\* C3 amended: with 0 generations generate returns the axiom unchanged, for
\* every axiom that _is_too_simple does not classify as too simple
C3_ZeroGenerationsNotSimple ==
    (returned /\ iterations = 0 /\ ~_is_too_simple(axiom)) => current_string = axiom

\* generate(0) has returned for an axiom that is not too simple and that a rule
\* would rewrite
C3_Witness ==
    /\ returned /\ iterations = 0 /\ ~_is_too_simple(axiom)
    /\ \E i \in DOMAIN axiom : axiom[i] \in DOMAIN rules

\* no rule replaces a symbol by the empty string
NonShrinking == \A c \in DOMAIN rules : Len(rules[c]) >= 1

\* the last two calls were generate(n) and generate(n+1), neither hit the cap
ConsecutiveUncapped ==
    /\ prev.iterations >= 0
    /\ iterations = prev.iterations + 1
    /\ ~prev.truncated /\ ~truncated

\* C4 as stated: generate(n+1) is at least as long as generate(n)
C4_GrowthMonotone ==
    (NonShrinking /\ ConsecutiveUncapped) => Len(current_string) >= prev.length

\* C4 amended: for rules that never shorten a symbol, when neither n nor n+1
\* generations hit the cap and the string rewritten for n generations is not
\* classified too simple, generate(n+1) is at least as long as generate(n)
C4_GrowthMonotoneNotSimple ==
    (NonShrinking /\ ConsecutiveUncapped /\ ~prev.simple)
        => Len(current_string) >= prev.length

\* generate(n) then generate(n+1), under the cap, and the string grew
C4_Witness ==
    /\ NonShrinking /\ ConsecutiveUncapped /\ ~prev.simple
    /\ Len(current_string) > prev.length

\* C5: for axiom "F", no rules and 5 generations the rewriting yields "F", the
\* detector classifies it too simple and the returned string has a branch symbol
C5_DegenerateSelfCorrection ==
    (returned /\ axiom = <<"F">> /\ rules = NoRules /\ iterations = 5)
        => /\ rewritten = <<"F">>
           /\ _is_too_simple(rewritten)
           /\ branch_count(current_string) >= 1

RECURSIVE FirstOverlong(_, _, _, _)
\* the first of the generations i+1..n of s that is longer than the cap, with
\* its number; number 0 when there is none
FirstOverlong(rs, s, i, n) ==
    IF i = n THEN [number |-> 0, string |-> <<>>]
    ELSE IF Len(ApplyRules(rs, s)) > max_string_length
         THEN [number |-> i + 1, string |-> ApplyRules(rs, s)]
         ELSE FirstOverlong(rs, ApplyRules(rs, s), i + 1, n)

\* s is the first Len(s) symbols of t
IsPrefix(s, t) == Len(s) <= Len(t) /\ s = SubSeq(t, 1, Len(s))

C18_ReturnedWithinCap == (returned /\ truncated) => Len(current_string) <= max_string_length

\* C19: _is_too_simple classifies the rewritten string too simple when it has
\* more than 10 F with fewer than 4 branch and fewer than 4 rotation symbols,
\* when it is shorter than 20 with more than 3 F, and when it is a non-empty
\* string of F only
C19_TooSimpleClassification ==
    returned =>
        LET f_count == Count(rewritten, "F")
        IN  /\ (f_count > 10 /\ branch_count(rewritten) < 4 /\ rotation_count(rewritten) < 4)
                  => _is_too_simple(rewritten)
            /\ (Len(rewritten) < 20 /\ f_count > 3) => _is_too_simple(rewritten)
            /\ (rewritten # <<>> /\ f_count = Len(rewritten)) => _is_too_simple(rewritten)

\* C20: when the rewritten string is classified too simple and is longer than
\* 10, the returned string has at least 3 more '[' than it
C20_ThreeInsertions ==
    (returned /\ _is_too_simple(rewritten) /\ Len(rewritten) > 10)
        => Count(current_string, "[") >= Count(rewritten, "[") + 3

-----------------------------------------------------------------------------
(* Claims about LSystem.get_vertices *)

\* C6: when ']' is read while the stack is empty, the turtle is reset to
\* heading up, the initial length and width and depth 0, the stack stays
\* empty, and the interpretation goes on with the next symbol
C6_EmptyStackPopResets ==
    [][(Reading /\ char = "]" /\ stack = <<>>)
          => /\ direction' = Up
             /\ current_length' = initial_length
             /\ current_width' = initial_width
             /\ branch_depth' = 0
             /\ stack' = <<>>
             /\ char_index' = char_index + 1
             /\ gv_result' = NoResult]_vars

\* a string that opens with an unmatched ']' and whose next segment was drawn
\* from the reset position
C6_Witness ==
    /\ current_string # <<>> /\ current_string[1] = "]"
    /\ Len(vertices) >= 2 /\ vertices[1] = ResetPosition

\* C7: after every symbol and in the returned result, the vertices, colors and
\* normals buffers hold the same number of entries
C7_BufferParity ==
    /\ Len(vertices) = Len(colors)
    /\ Len(colors) = Len(normals)
    /\ gv_result.returned =>
          /\ Len(gv_result.vertices) = Len(gv_result.colors)
          /\ Len(gv_result.colors) = Len(gv_result.normals)

\* get_vertices has returned the buffers of a string with an F and an X segment
C7_Witness ==
    /\ gv_result.returned
    /\ Contains(current_string, "F") /\ Contains(current_string, "X")
    /\ Len(gv_result.vertices) >= 4

\* C8: every color component emitted lies in [0,1]
C8_ColorsInRange ==
    \A i \in DOMAIN colors : \A k \in 1..3 : colors[i][k] >= 0 /\ colors[i][k] <= 1000

\* an F and an X segment were drawn deeper than max_render_depth, where the
\* color before the clip is out of range
C8_Witness ==
    /\ branch_depth > max_render_depth
    /\ Contains(current_string, "F") /\ Contains(current_string, "X")
    /\ Len(colors) >= 4
    /\ UnclippedSegmentColor(branch_depth, max_render_depth, current_width)[1] > 1000

ParallelToUp(dir) == dir.x = 0 /\ dir.z = 0

ParallelToRight(dir) == dir.y = 0 /\ dir.z = 0

\* C9: every emitted normal is a non-zero unit vector: the cross product of
\* the heading with world-up, with world-right when the heading is parallel to
\* up, and world-forward only when it is parallel to both
C9_NormalsNonZero ==
    \A i \in DOMAIN normals :
        LET n == normals[i]
            dir == seg_dirs[i]
        IN  /\ n.v # <<0, 0, 0>>
            /\ n.n2 = Norm2(n.v) /\ n.n2 > 0
            /\ ~ParallelToUp(dir) => n.v = CrossUp(dir)
            /\ (ParallelToUp(dir) /\ ~ParallelToRight(dir)) => n.v = CrossRight(dir)
            /\ (ParallelToUp(dir) /\ ParallelToRight(dir)) => n = Forward

\* one normal was computed for a heading parallel to up, another for one that is not
C9_Witness ==
    \E i, j \in DOMAIN normals : ParallelToUp(seg_dirs[i]) /\ ~ParallelToUp(seg_dirs[j])

\* the 'F' and 'X' among the first k symbols of s
Segments(s, k) == Count(SubSeq(s, 1, k), "F") + Count(SubSeq(s, 1, k), "X")

\* C16: get_vertices emits one (start, end) pair per 'F' and per 'X' read and
\* nothing for any other symbol, so it returns 2 x (number of F + number of X)
\* vertices, and three empty buffers for a string with no F and no X
C16_VertexCount ==
    /\ Len(vertices) = 2 * Segments(current_string, char_index - 1)
    /\ gv_result.returned =>
          /\ Len(gv_result.vertices) = 2 * Segments(current_string, Len(current_string))
          /\ Segments(current_string, Len(current_string)) = 0 =>
                /\ gv_result.vertices = <<>>
                /\ gv_result.colors = <<>>
                /\ gv_result.normals = <<>>

\* get_vertices has returned the two vertices of a string made of one segment
\* symbol and one symbol that draws nothing
C16_Witness ==
    /\ gv_result.returned
    /\ Len(current_string) = 2
    /\ Segments(current_string, 2) = 1
    /\ Len(gv_result.vertices) = 2

\* the five values '[' saves and ']' restores
TurtleState ==
    [position |-> position, direction |-> direction, current_length |-> current_length,
     current_width |-> current_width, branch_depth |-> branch_depth]

\* C23: '[' pushes the five values (position, heading, length, width, depth)
\* as they are, then multiplies the length by scale, the width by the width
\* reduction factor and adds 1 to the depth; ']' on a non-empty stack takes the
\* top entry off and restores the five values from it; no other symbol touches
\* the stack, so the matching ']' restores what was held just before its '['
C23_PushPopRoundTrip ==
    [][/\ (Reading /\ char = "[") =>
            /\ stack' = Append(stack, TurtleState)
            /\ current_length' = (current_length * scale.num) \div scale.den
            /\ current_width' = (IF initial_width > 0
                                 THEN (current_width * 774) \div 1000
                                 ELSE current_width)
            /\ branch_depth' = branch_depth + 1
            /\ position' = position /\ direction' = direction
       /\ (Reading /\ char = "]" /\ stack # <<>>) =>
            /\ TurtleState' = stack[Len(stack)]
            /\ stack' = SubSeq(stack, 1, Len(stack) - 1)
       /\ (Reading /\ char \notin {"[", "]"}) => stack' = stack]_vars

\* a ']' has brought the turtle back to the origin after a segment was drawn
\* inside the branch
C23_Witness ==
    /\ char_index > 1 /\ current_string[char_index - 1] = "]"
    /\ Len(vertices) >= 2 /\ vertices[2] # Origin
    /\ position = Origin /\ direction = Up
    /\ stack # <<>>

\* C24: after every symbol branch_depth is the number of entries on the
\* stack, also for strings with an unmatched ']'; it is never negative
C24_DepthIsStackSize == branch_depth = Len(stack) /\ branch_depth >= 0

\* a '[' was read after an unmatched ']'
C24_Witness ==
    /\ current_string # <<>> /\ current_string[1] = "]"
    /\ char_index > 2
    /\ branch_depth >= 1

\* C25: 'X' emits one segment that starts at the current position and leaves
\* position, heading, length, width, depth and the stack as they were
C25_LeafKeepsState ==
    [][(Reading /\ char = "X") =>
          /\ Len(vertices') = Len(vertices) + 2
          /\ vertices'[Len(vertices) + 1] = position
          /\ TurtleState' = TurtleState
          /\ stack' = stack]_vars

\* an 'X' was read away from the origin: its segment starts where the turtle
\* still is and ends elsewhere
C25_Witness ==
    /\ char_index > 1 /\ current_string[char_index - 1] = "X"
    /\ Len(vertices) >= 4
    /\ position # Origin
    /\ vertices[Len(vertices) - 1] = position
    /\ vertices[Len(vertices)] # position

-----------------------------------------------------------------------------
(* Claims about ForestGenerator._generate_tree_positions *)

\* C10: at every point of the construction and in the returned list, every
\* two distinct accepted positions are at planar distance min_distance or more
C10_PlacementDistance ==
    \A i, j \in DOMAIN positions :
        i # j => LET dx == positions[i][1] - positions[j][1]
                     dz == positions[i][2] - positions[j][2]
                 IN  dx * dx + dz * dz >= min_distance * min_distance

\* a list of two positions or more was returned after a draw had been rejected
C10_Witness == where = "done" /\ Len(positions) >= 2 /\ attempts >= 2

\* C11: _generate_tree_positions terminates; no tree is given more than
\* max_attempts draws; a tree that found no place is given up and the trees
\* after it are still tried, so that at the return every requested tree was
\* either placed or given up; the result holds at most tree_count positions
C11_PlacementTerminates ==
    /\ <>(where = "done")
    /\ [](/\ attempts <= max_attempts
          /\ Len(positions) <= tree_count
          /\ skipped <= tree_index
          /\ where = "done" => /\ tree_index = tree_count
                               /\ Len(positions) + skipped = tree_count)

\* the call returned after two trees had been given up, each after max_attempts
\* draws, and another had been placed
C11_Witness ==
    /\ where = "done" /\ skipped >= 2 /\ Len(positions) >= 1
    /\ attempts = max_attempts

-----------------------------------------------------------------------------
(* Claims about the rendering of one tree *)

\* C12: for a constructed object and a fixed sequence of draws, the second
\* run of generate(n) and get_vertices() yields the string and the vertex,
\* color and normal buffers of the first run
C12_Deterministic ==
    (first_run.done /\ iterations = first_run.iterations) =>
        /\ current_string = first_run.current_string
        /\ gv_result.returned => gv_result = first_run.result
        /\ rendered.set => rendered = first_run.rendered

\* the second run has returned buffers for which get_vertices consumed draws
\* off the middle of their range
C12_Witness ==
    /\ first_run.done /\ iterations = first_run.iterations
    /\ gv_result.returned
    /\ Len(gv_result.vertices) >= 4
    /\ draws_made >= 2
    /\ tape.turtle[1] # MidDraw

\* generate(3) has returned for axiom "X" and the rules X -> F[+X][-X]FX, F -> FF
Scenario == axiom = Str_X /\ rules = BranchX /\ returned /\ iterations = 3

\* C13: in the scenario generate returns a non-empty string with balanced
\* brackets, an F and an X, and get_vertices returns at least one segment
\* pair, the first of which starts at the origin
C13_EndToEnd ==
    Scenario =>
        /\ current_string # <<>>
        /\ Balanced(current_string)
        /\ Contains(current_string, "F") /\ Contains(current_string, "X")
        /\ gv_result.returned =>
              /\ Len(gv_result.vertices) >= 2
              /\ gv_result.vertices[1] = Origin

\* get_vertices has returned in the scenario
C13_Witness == Scenario /\ gv_result.returned /\ ~first_run.done

\* C14: generate never returns for an object whose scale is outside the open
\* interval (0,1): the constructor rejects such a configuration, so that no
\* usable object comes of it
C14_InvalidScaleRejected ==
    returned => (scale_arg.num > 0 /\ scale_arg.num < scale_arg.den)

\* C26: when the scale argument of the constructor is inside (0,1), the scale
\* the object stores, which get_vertices multiplies the length by at every
\* '[', is inside (0,1) as well
C26_StoredScaleInRange ==
    (returned /\ scale_arg.num > 0 /\ scale_arg.num < scale_arg.den)
        => (scale.num > 0 /\ scale.num < scale.den)

\* C28: generate rewrites from the axiom whatever calls came before: the
\* string a later generate(n) leaves is the string generate(n) gives on a
\* freshly constructed object with the same fields and draws (the axiom
\* rewritten n times, then the corrective pass), and the buffers a later
\* get_vertices returns hold the segments of that string, not of an earlier one
C28_RewritesFromAxiom ==
    /\ returned =>
          LET fresh == ExpandWithin(rules, axiom, 0, iterations, max_string_length_code)
          IN  /\ rewritten = fresh.s
              /\ current_string = Corrected(fresh.s, tape.gen)
    /\ gv_result.returned =>
          Len(gv_result.vertices) = 2 * Segments(current_string, Len(current_string))

\* get_vertices has returned for a second generate that ran for fewer
\* generations than the first and left a string with fewer segments
C28_Witness ==
    /\ first_run.done /\ gv_result.returned
    /\ iterations < first_run.iterations
    /\ current_string # first_run.current_string
    /\ Len(gv_result.vertices) >= 2
    /\ Len(gv_result.vertices) < Len(first_run.result.vertices)

\* C29: no step of generate or get_vertices changes axiom, rules, angle,
\* scale, trunk_color, leaf_color or the initial width the width reduction
\* factor is computed from: they keep the values the constructor set
C29_GrammarFieldsKept ==
    [][/\ axiom' = axiom /\ rules' = rules
       /\ angle' = angle /\ scale' = scale
       /\ trunk_color' = trunk_color /\ leaf_color' = leaf_color
       /\ initial_width' = initial_width /\ initial_length' = initial_length]_vars

\* generate and get_vertices have both returned twice on an object whose
\* leaf color and scale were jittered at construction
C29_Witness ==
    /\ first_run.done /\ first_run.result.returned
    /\ gv_result.returned /\ draws_made >= 1
    /\ leaf_color # <<0, 800, 0>>
    /\ scale # scale_arg

\* C30: when render_forest has returned for the current forest, the renderer
\* holds "tree_i" only for i below the number of trees of that forest
C30_NoStaleObjects ==
    (render_pc = "idle" /\ shown) => \A i \in objects : i < Len(trees)

\* the strings a rule offers for a symbol: its value or its alternatives, the
\* symbol itself when it has no rule
Choices(rs, c) ==
    IF c \notin DOMAIN rs THEN {<<c>>}
    ELSE IF rs[c].kind = "str" THEN {rs[c].s}
    ELSE {rs[c].alts[k] : k \in DOMAIN rs[c].alts}

RECURSIVE OneGeneration(_, _, _)
\* the rewritings of s in one generation, a choice piece(j) for every symbol j
OneGeneration(piece(_), s, j) ==
    IF j > Len(s) THEN {<<>>}
    ELSE {a \o b : a \in piece(j), b \in OneGeneration(piece, s, j + 1)}

\* C21: generate raises no error for a rule whose value is a list of
\* alternatives, and one generation replaces each occurrence of the symbol by
\* one of the alternatives, chosen per occurrence
C21_AlternativesAccepted ==
    /\ raised = "none"
    /\ (returned /\ iterations = 1 /\ ~truncated) =>
           LET piece(j) == Choices(rules, axiom[j])
           IN  rewritten \in OneGeneration(piece, axiom, 1)

\* the micro-patterns of the override: F, FF, F[+F]F[-F]F
MicroPatterns ==
    {<<"F">>, <<"F", "F">>,
     <<"F", "[", "+", "F", "]", "F", "[", "-", "F", "]", "F">>}

\* random.random() < 0.02
OverrideDraw(d) == 100 * d < 2 * DrawRange

\* C22: in a generation an F whose draw falls below the override probability
\* is replaced by one of the micro-patterns instead of its rule; every other
\* symbol is replaced by its rule, or copied when it has none
C22_OverrideTakesPrecedence ==
    (returned /\ raised = "none" /\ iterations = 1 /\ ~truncated) =>
        LET piece(j) == IF axiom[j] = "F" /\ OverrideDraw(gen_tape[j])
                        THEN MicroPatterns
                        ELSE Choices(rules, axiom[j])
        IN  rewritten \in OneGeneration(piece, axiom, 1)

\* C27: Tree._interpret_instructions and the get_vertices of try.py absorb a
\* ']' read on an empty stack: no instruction string makes them raise
C27_OtherInterpretersRecover ==
    interpreter \in {"Tree", "try"} => raised = "none"

\* C15: the array handed to the renderer has, for every vertex get_vertices
\* returned, x increased by the placement's x, y unchanged and z increased by
\* the placement's z; the colors and the normals are handed over unchanged
C15_RenderTranslates ==
    (rendered.set /\ gv_result.vertices # <<>>) =>
        /\ Len(rendered.vertices) = 3 * Len(gv_result.vertices)
        /\ \A v \in DOMAIN gv_result.vertices :
              /\ rendered.vertices[3 * v - 2] = gv_result.vertices[v][1] + placement[1] * 10000
              /\ rendered.vertices[3 * v - 1] = gv_result.vertices[v][2]
              /\ rendered.vertices[3 * v] = gv_result.vertices[v][3] + placement[2] * 10000
        /\ rendered.colors = gv_result.colors
        /\ rendered.normals = gv_result.normals

\* a tree of two segments or more was rendered away from the origin
C15_Witness ==
    /\ rendered.set /\ Len(gv_result.vertices) >= 4
    /\ placement[1] # 0 /\ placement[2] # 0

=============================================================================
